---- MODULE Spec2Model ----
(***************************************************************************)
(* Model of src/call/signature.c: the Parrot_Signature aggregate that      *)
(* carries positional and named call arguments.                            *)
(*                                                                         *)
(* Every C value is a tagged tuple, so that values of different C types    *)
(* are never compared as if they were of one type:                         *)
(*   <<"i", n>>        INTVAL n                                            *)
(*   <<"n", h>>        FLOATVAL h/2 (floats are counted in halves)         *)
(*   <<"s", chars>>    STRING* to the text chars; <<"snull">> a null one   *)
(*   <<"pmc", id>>     PMC* to the object id;     <<"pnull">> PMCNULL      *)
(*   <<"box", k, v>>   PMC* to an object boxed by Parrot_pmc_box_*         *)
(* A pointer to storage the signature owns is a record whose field p is    *)
(* "NULL", "WILD" (the bit pattern memset left, pointing nowhere) or       *)
(* "OBJ" (a live allocation, whose contents the record carries).           *)
(***************************************************************************)
EXTENDS Integers, Sequences, FiniteSets, TLC

(***************************************************************************)
(* Bounds of the model.                                                    *)
(***************************************************************************)
\* Signatures that may be allocated at once.
MaxSigs == 2
\* Positional pushes one signature receives.
MaxPush == 9

(***************************************************************************)
(* Program constants.                                                      *)
(***************************************************************************)
\* The fill byte of memset in Parrot_pcc_signature_new.
MemsetByte == 1
\* The pool/chunk threshold and the floor of the first allocation.
SmallSlots == 8

SigIds == 1..MaxSigs
Keys   == {"x", "y"}

\* An INTVAL whose every byte is b (modelled at a width of four bytes: what
\* matters is that b = 0 gives 0 and b # 0 a value beyond every count).
FilledINTVAL(b) == b * (1 + 2^8 + 2^16 + 2^24)
\* A pointer whose every byte is b.
FilledPointer(b) == IF b = 0 THEN "NULL" ELSE "WILD"

(***************************************************************************)
(* Values.                                                                 *)
(***************************************************************************)
IntVals   == {<<"i", -7>>, <<"i", 0>>, <<"i", 42>>}
FloatVals == {<<"n", -3>>, <<"n", 0>>, <<"n", 5>>}
StrVals   == {<<"snull">>, <<"s", <<"4", "2">>>>, <<"s", <<"a", "b", "c">>>>}
PmcVals   == {<<"pnull">>, <<"pmc", 1>>, <<"pmc", 2>>}

ZeroInt == <<"i", 0>>
ZeroNum == <<"n", 0>>
STRINGNULL == <<"snull">>
PMCNULL == <<"pnull">>

\* The outcomes of a call that ran into undefined behaviour: the process is
\* killed, or the call comes back having read or written memory it does not own.
UBOutcomes == {<<"killed">>, <<"garbage">>}
\* A null pointer dereference (or the argument assertion before it) kills.
NullOutcomes == {<<"killed">>}
\* Parrot_confess, which a failed PARROT_ASSERT calls: report and abort.
AssertionFailed == "assertion failed: Push dead object into CallContext!"
AssertOutcomes == {<<"aborted">>}
NullFaults ==
    {"Parrot_hash_get on a null hash", "VTABLE_clone of a null handle"}
Outcomes(ub) ==
    IF ub = AssertionFailed THEN AssertOutcomes
    ELSE IF ub \in NullFaults THEN NullOutcomes ELSE UBOutcomes
Void == <<"void">>

(***************************************************************************)
(* Cells and the storage a signature points to.                            *)
(***************************************************************************)
Cell(type, value) == [type |-> type, u |-> value]
\* A slot of an array that was allocated and never written.
JunkCell == Cell("JUNK", <<"junk">>)
\* A cell whose bytes are all zero.
ZeroCell == Cell("ZERO", <<"zero">>)
\* The cells ALLOC_CELL may hand out. The macro is defined outside this file:
\* it hands out storage of the fixed-size pool as it is, never written, or
\* zero-filled.
FreshCells == {JunkCell, ZeroCell}

NoArray == <<>>
PosPtr(p, tier, cells) == [p |-> p, tier |-> tier, c |-> cells]
HashPtr(p, entries) == [p |-> p, e |-> entries]
NoEntries == [k \in {} |-> ZeroCell]

\* A metadata handle: absent (NULL), wild, or a reference to the object id;
\* dup counts the VTABLE_clone calls that produced it from the original.
Handle(p, id, dup) == [p |-> p, id |-> id, dup |-> dup]

\* The unused slot of the signature heap.
NoSig ==
    [live |-> FALSE,
     positionals |-> PosPtr("NULL", "none", NoArray),
     num_positionals |-> 0,
     allocated_positionals |-> 0,
     hash |-> HashPtr("NULL", NoEntries),
     type_tuple |-> Handle("NULL", 0, 0),
     short_sig |-> Handle("NULL", 0, 0),
     arg_flags |-> Handle("NULL", 0, 0),
     return_flags |-> Handle("NULL", 0, 0)]

\* The struct after memset(sig, b, sizeof (Parrot_Signature)).
MemsetSig(b) ==
    [live |-> TRUE,
     positionals |-> PosPtr(FilledPointer(b), "none", NoArray),
     num_positionals |-> FilledINTVAL(b),
     allocated_positionals |-> FilledINTVAL(b),
     hash |-> HashPtr(FilledPointer(b), NoEntries),
     type_tuple |-> Handle(FilledPointer(b), 0, 0),
     short_sig |-> Handle(FilledPointer(b), 0, 0),
     arg_flags |-> Handle(FilledPointer(b), 0, 0),
     return_flags |-> Handle(FilledPointer(b), 0, 0)]

\* Parrot_pcc_signature_new: allocate the aggregate and memset it.
Parrot_pcc_signature_new == MemsetSig(MemsetByte)

VARIABLES
    sigs,    \* the signatures: SigIds -> struct (live or not)
    fault,   \* "none", or the undefined behaviour the process ran into
    last,    \* the last call: its name, arguments, result and the struct before
    calls,   \* per signature, what its caller has done to it (see Made)
    swept    \* the references the collector has reclaimed (on the free list)

vars == <<sigs, fault, last, calls, swept>>

\* The caller's record of a signature: the cells of the positional pushes
\* that returned since new or the last reset, the keys of the named pushes
\* that returned since then, the largest number of positionals it held when
\* it was reset, and whether it was reset.
Made(pushed, named, hwm, wasReset) ==
    [pushed |-> pushed, named |-> named, hwm |-> hwm, wasReset |-> wasReset]
NoneMade == Made(<<>>, {}, 0, FALSE)
AfterPush(m, cell) == [m EXCEPT !.pushed = Append(m.pushed, cell)]
AfterNamed(m, key) == [m EXCEPT !.named = m.named \cup {key}]
AfterReset(m) ==
    Made(<<>>, {}, IF Len(m.pushed) > m.hwm THEN Len(m.pushed) ELSE m.hwm, TRUE)

\* The result of an operation on a struct: the struct after, the undefined
\* behaviour it ran into ("none" if none), what it returns and the allocator
\* events it caused.
Res(s, ub, ret, ev) == [s |-> s, ub |-> ub, ret |-> ret, ev |-> ev]

Call(op, sig, idx, key, arg, ret, pre, ev) ==
    [op |-> op, sig |-> sig, idx |-> idx, key |-> key, arg |-> arg,
     ret |-> ret, pre |-> pre, ev |-> ev]

NoCall == Call("none", 0, 0, "", Void, Void, NoSig, <<>>)

Init ==
    /\ sigs = [s \in SigIds |-> NoSig]
    /\ fault = "none"
    /\ last = NoCall
    /\ calls = [s \in SigIds |-> NoneMade]
    /\ swept = {}

\* One call completes: the struct is updated; on undefined behaviour the
\* process is lost and the outcome is any of UBOutcomes.
Finish(op, s, idx, key, arg, r, made) ==
    /\ sigs' = [sigs EXCEPT ![s] = r.s]
    /\ UNCHANGED swept
    /\ IF r.ub = "none"
       THEN /\ fault' = "none"
            /\ calls' = [calls EXCEPT ![s] = made]
            /\ last' = Call(op, s, idx, key, arg, r.ret, sigs[s], r.ev)
       ELSE /\ fault' = r.ub
            /\ UNCHANGED calls
            /\ \E o \in Outcomes(r.ub) :
                   last' = Call(op, s, idx, key, arg, o, sigs[s], r.ev)

New(s) ==
    /\ fault = "none"
    /\ ~sigs[s].live
    /\ Finish("new", s, 0, "", Void,
              Res(Parrot_pcc_signature_new, "none", <<"sig", s>>,
                  <<<<"alloc", "pool", "sig">>>>),
              NoneMade)

(***************************************************************************)
(* Conversions of the string library and the object model, which the       *)
(* coercions call.                                                         *)
(***************************************************************************)
Digits == <<"0", "1", "2", "3", "4", "5", "6", "7", "8", "9">>
IsDigit(ch) == \E d \in 1..10 : Digits[d] = ch
DigitOf(ch) == (CHOOSE d \in 1..10 : Digits[d] = ch) - 1

\* The number the leading digits of chars[i..] spell after acc.
RECURSIVE ParseDigits(_, _, _)
ParseDigits(chars, i, acc) ==
    IF i > Len(chars) \/ ~IsDigit(chars[i]) THEN acc
    ELSE ParseDigits(chars, i + 1, acc * 10 + DigitOf(chars[i]))

\* Parrot_str_to_int: an optional sign and leading digits; 0 when there are none.
Parrot_str_to_int(str) ==
    LET chars == str[2] IN
    IF Len(chars) > 0 /\ chars[1] = "-" THEN <<"i", 0 - ParseDigits(chars, 2, 0)>>
    ELSE <<"i", ParseDigits(chars, 1, 0)>>

\* Parrot_str_to_num, for texts without a fraction.
Parrot_str_to_num(str) == <<"n", 2 * Parrot_str_to_int(str)[2]>>

RECURSIVE FormatNat(_)
FormatNat(n) ==
    IF n < 10 THEN <<Digits[n + 1]>>
    ELSE FormatNat(n \div 10) \o <<Digits[(n % 10) + 1]>>

\* Parrot_str_from_int
Parrot_str_from_int(i) ==
    <<"s", IF i[2] < 0 THEN <<"-">> \o FormatNat(0 - i[2]) ELSE FormatNat(i[2])>>

\* (INTVAL) of a FLOATVAL: truncation toward zero.
TruncToInt(n) ==
    <<"i", IF n[2] >= 0 THEN n[2] \div 2 ELSE 0 - ((0 - n[2]) \div 2)>>

\* (FLOATVAL) of an INTVAL.
WidenToNum(i) == <<"n", 2 * i[2]>>

\* Parrot_str_from_num
Parrot_str_from_num(n) ==
    LET whole == Parrot_str_from_int(TruncToInt(n))[2]
        mag   == IF n[2] >= 0 THEN n[2] ELSE 0 - n[2]
        sign  == IF n[2] < 0 /\ mag < 2 THEN <<"-">> ELSE <<>>
    IN <<"s", IF mag % 2 = 1 THEN sign \o whole \o <<".", "5">> ELSE whole>>

\* The objects of the heap: object 1 is an Integer holding 5, object 2 a
\* String holding "42".
PmcHeld(id) == IF id = 1 THEN <<"i", 5>> ELSE <<"s", <<"4", "2">>>>

\* What a vtable call returns: the value, or the exception thrown.
\* via lists the calls into the string library and the object model made.
Returned(v) == [ub |-> "none", ret |-> v, via |-> <<>>]
Undefined(what) == [ub |-> what, ret |-> <<"garbage">>, via |-> <<>>]
Thrown == Returned(<<"throw", "Null PMC access">>)
Via(r, callee) == [r EXCEPT !.via = <<<<"call", callee>>>> \o r.via]

VTABLE_get_integer(pmc) ==
    IF pmc = PMCNULL THEN Thrown
    ELSE LET v == PmcHeld(pmc[2]) IN
         Returned(IF v[1] = "i" THEN v ELSE Parrot_str_to_int(v))

VTABLE_get_number(pmc) ==
    IF pmc = PMCNULL THEN Thrown
    ELSE LET v == PmcHeld(pmc[2]) IN
         Returned(IF v[1] = "i" THEN WidenToNum(v) ELSE Parrot_str_to_num(v))

VTABLE_get_string(pmc) ==
    IF pmc = PMCNULL THEN Thrown
    ELSE LET v == PmcHeld(pmc[2]) IN
         Returned(IF v[1] = "i" THEN Parrot_str_from_int(v) ELSE v)

\* Parrot_pmc_box_integer, _number, _string: a new object holding the value.
Parrot_pmc_box(v) == <<"box", v[1], v>>

(***************************************************************************)
(* The coercions.                                                          *)
(***************************************************************************)
\* autobox_intval with the float rounded down instead of truncated.
autobox_intval_floor(cell) ==
    CASE cell.type = "INTCELL"    -> Returned(cell.u)
      [] cell.type = "FLOATCELL"  -> Returned(<<"i", cell.u[2] \div 2>>)
      [] cell.type = "STRINGCELL" ->
            IF cell.u # STRINGNULL
            THEN Via(Returned(Parrot_str_to_int(cell.u)), "Parrot_str_to_int")
            ELSE Returned(ZeroInt)
      [] cell.type = "PMCCELL"    ->
            Via(VTABLE_get_integer(cell.u), "VTABLE_get_integer")
      [] cell.type = "ZERO"       -> Returned(ZeroInt)
      [] OTHER                    -> Undefined("read of an unwritten cell")

autobox_intval(cell) ==
    CASE cell.type = "INTCELL"    -> Returned(cell.u)
      [] cell.type = "FLOATCELL"  -> Returned(TruncToInt(cell.u))
      [] cell.type = "STRINGCELL" ->
            IF cell.u # STRINGNULL
            THEN Via(Returned(Parrot_str_to_int(cell.u)), "Parrot_str_to_int")
            ELSE Returned(ZeroInt)
      [] cell.type = "PMCCELL"    ->
            Via(VTABLE_get_integer(cell.u), "VTABLE_get_integer")
      [] cell.type = "ZERO"       -> Returned(ZeroInt)   \* default: return 0
      [] OTHER                    -> Undefined("read of an unwritten cell")

autobox_floatval(cell) ==
    CASE cell.type = "INTCELL"    -> Returned(WidenToNum(cell.u))
      [] cell.type = "FLOATCELL"  -> Returned(cell.u)
      [] cell.type = "STRINGCELL" ->
            IF cell.u # STRINGNULL
            THEN Via(Returned(Parrot_str_to_num(cell.u)), "Parrot_str_to_num")
            ELSE Returned(ZeroNum)
      [] cell.type = "PMCCELL"    ->
            Via(VTABLE_get_number(cell.u), "VTABLE_get_number")
      [] cell.type = "ZERO"       -> Returned(ZeroNum)
      [] OTHER                    -> Undefined("read of an unwritten cell")

autobox_string(cell) ==
    CASE cell.type = "INTCELL"    ->
            Via(Returned(Parrot_str_from_int(cell.u)), "Parrot_str_from_int")
      [] cell.type = "FLOATCELL"  ->
            Via(Returned(Parrot_str_from_num(cell.u)), "Parrot_str_from_num")
      [] cell.type = "STRINGCELL" -> Returned(cell.u)
      [] cell.type = "PMCCELL"    ->
            Via(VTABLE_get_string(cell.u), "VTABLE_get_string")
      [] cell.type = "ZERO"       -> Returned(STRINGNULL)
      [] OTHER                    -> Undefined("read of an unwritten cell")

autobox_pmc(cell) ==
    CASE cell.type = "INTCELL"    ->
            Via(Returned(Parrot_pmc_box(cell.u)), "Parrot_pmc_box_integer")
      [] cell.type = "FLOATCELL"  ->
            Via(Returned(Parrot_pmc_box(cell.u)), "Parrot_pmc_box_number")
      [] cell.type = "STRINGCELL" ->
            Via(Returned(Parrot_pmc_box(cell.u)), "Parrot_pmc_box_string")
      [] cell.type = "PMCCELL"    -> Returned(cell.u)
      [] cell.type = "ZERO"       -> Returned(PMCNULL)
      [] OTHER                    -> Undefined("read of an unwritten cell")

(***************************************************************************)
(* The positional store.                                                   *)
(***************************************************************************)
Junk(n) == [i \in 1..n |-> JunkCell]

\* The release of a positional array as the code chooses it: by the capacity
\* recorded in the struct, to the chunk allocator above 8 slots and to the
\* pool (with that capacity as its size) otherwise. The event ends with the
\* allocator and the size the array released was obtained with.
FreePositionals(self) ==
    IF self.allocated_positionals > SmallSlots
    THEN <<"free", "chunk", "array", 0,
           self.positionals.tier, Len(self.positionals.c)>>
    ELSE <<"free", "pool", "array", self.allocated_positionals,
           self.positionals.tier, Len(self.positionals.c)>>

\* ensure_positionals_storage that installs the new array and leaves
\* allocated_positionals as it was.
ensure_storage_capacity_not_set(self, size) ==
    IF size <= self.allocated_positionals
    THEN Res(self, "none", Void, <<>>)
    ELSE
      LET sz   == IF size < SmallSlots THEN SmallSlots ELSE size
          tier == IF sz > SmallSlots THEN "chunk" ELSE "pool"
          old  == self.positionals
      IN
      IF old.p = "WILD"
      THEN Res(self, "memcpy from and release of a wild positionals pointer",
               Void, <<>>)
      ELSE Res([self EXCEPT !.positionals =
                   PosPtr("OBJ", tier,
                          [i \in 1..sz |->
                              IF old.p = "OBJ" /\ i <= self.num_positionals
                                 /\ i <= Len(old.c)
                              THEN old.c[i] ELSE JunkCell])],
               "none", Void, <<<<"alloc", tier, "array", sz>>>>)

ensure_positionals_storage(self, size) ==
    IF size <= self.allocated_positionals
    THEN Res(self, "none", Void, <<>>)
    ELSE
      LET sz   == IF size < SmallSlots THEN SmallSlots ELSE size
          tier == IF sz > SmallSlots THEN "chunk" ELSE "pool"
          got  == <<"alloc", tier, "array", sz>>
          old  == self.positionals
      IN
      IF old.p = "NULL"
      THEN Res([self EXCEPT !.allocated_positionals = sz,
                            !.positionals = PosPtr("OBJ", tier, Junk(sz))],
               "none", Void, <<got>>)
      ELSE IF old.p = "WILD"
      THEN Res(self, "memcpy from and release of a wild positionals pointer",
               Void, <<got>>)
      ELSE IF self.num_positionals > Len(old.c)
      THEN Res(self, "memcpy beyond the positionals array", Void, <<got>>)
      ELSE
        Res([self EXCEPT
               !.allocated_positionals = sz,
               !.positionals =
                   PosPtr("OBJ", tier,
                          [i \in 1..sz |->
                              IF i <= self.num_positionals THEN old.c[i]
                              ELSE JunkCell])],
            "none", Void, <<got, FreePositionals(self)>>)

\* self->positionals[num_pos] = value with its type; self->num_positionals++
store_positional(self, num_pos, cell) ==
    LET e == ensure_positionals_storage(self, num_pos + 1) IN
    IF e.ub # "none" THEN e
    ELSE IF e.s.positionals.p # "OBJ"
    THEN Res(e.s, "write through a null or wild positionals pointer", Void, e.ev)
    ELSE IF num_pos < 0 \/ num_pos + 1 > Len(e.s.positionals.c)
    THEN Res(e.s, "write outside the positionals array", Void, e.ev)
    ELSE Res([e.s EXCEPT !.positionals.c[num_pos + 1] = cell,
                         !.num_positionals = e.s.num_positionals + 1],
             "none", Void, e.ev)

Parrot_pcc_signature_push_integer(self, value) ==
    store_positional(self, self.num_positionals, Cell("INTCELL", value))

Parrot_pcc_signature_push_float(self, value) ==
    store_positional(self, self.num_positionals, Cell("FLOATCELL", value))

Parrot_pcc_signature_push_string(self, value) ==
    store_positional(self, self.num_positionals, Cell("STRINGCELL", value))

\* PObj_on_free_list_TEST: the collector has reclaimed the object.
PObj_on_free_list_TEST(value) == value \in swept

\* PARROT_ASSERT(!PObj_on_free_list_TEST(value) || !"Push dead object ...")
\* comes first. Where the build keeps assertions (asserting), a dead object
\* ends the process there; where it compiles them away, the push goes on.
Parrot_pcc_signature_push_pmc(self, value, asserting) ==
    IF asserting /\ PObj_on_free_list_TEST(value)
    THEN Res(self, AssertionFailed, Void, <<>>)
    ELSE store_positional(self, self.num_positionals, Cell("PMCCELL", value))

\* The coercion of a cell to the kind a get returns.
autobox(kind, cell) ==
    CASE kind = "INTVAL"   -> autobox_intval(cell)
      [] kind = "FLOATVAL" -> autobox_floatval(cell)
      [] kind = "STRING"   -> autobox_string(cell)
      [] OTHER             -> autobox_pmc(cell)

\* &self->positionals[key] handed to the coercion, which reads the cell.
read_positional(self, key, kind) ==
    IF self.positionals.p # "OBJ"
    THEN Res(self, "read through a null or wild positionals pointer",
             Void, <<<<"read", key>>>>)
    ELSE IF key + 1 > Len(self.positionals.c)
    THEN Res(self, "read outside the positionals array", Void, <<<<"read", key>>>>)
    ELSE LET b == autobox(kind, self.positionals.c[key + 1]) IN
         Res(self, b.ub, b.ret, <<<<"read", key>>>> \o b.via)

\* The bounds check of get_integer with > for >=.
get_integer_off_by_one(self, key) ==
    IF key > self.num_positionals \/ key < 0
    THEN Res(self, "none", ZeroInt, <<>>)
    ELSE read_positional(self, key, "INTVAL")

Parrot_pcc_signature_get_integer(self, key) ==
    IF key >= self.num_positionals \/ key < 0
    THEN Res(self, "none", ZeroInt, <<>>)
    ELSE read_positional(self, key, "INTVAL")

Parrot_pcc_signature_get_number(self, key) ==
    IF key >= self.num_positionals \/ key < 0
    THEN Res(self, "none", ZeroNum, <<>>)
    ELSE read_positional(self, key, "FLOATVAL")

Parrot_pcc_signature_get_string(self, key) ==
    IF key >= self.num_positionals \/ key < 0
    THEN Res(self, "none", STRINGNULL, <<>>)
    ELSE read_positional(self, key, "STRING")

Parrot_pcc_signature_get_pmc(self, key) ==
    IF key >= self.num_positionals \/ key < 0
    THEN Res(self, "none", PMCNULL, <<>>)
    ELSE read_positional(self, key, "PMC")

(***************************************************************************)
(* The named store.                                                        *)
(***************************************************************************)
\* Parrot_hash_get and, on a miss, ALLOC_CELL and Parrot_hash_put, all on
\* self->hash as it is. fresh is the cell ALLOC_CELL hands out.
get_cell_named(self, key, fresh) ==
    IF self.hash.p = "NULL"
    THEN Res(self, "Parrot_hash_get on a null hash", Void, <<>>)
    ELSE IF self.hash.p = "WILD"
    THEN Res(self, "Parrot_hash_get on a wild hash pointer", Void, <<>>)
    ELSE IF key \in DOMAIN self.hash.e
    THEN Res(self, "none", Void, <<>>)
    ELSE Res([self EXCEPT !.hash.e =
                 [k \in DOMAIN self.hash.e \cup {key} |->
                     IF k = key THEN fresh ELSE self.hash.e[k]]],
             "none", Void, <<<<"alloc", "pool", "cell">>>>)

\* cell->u = value; cell->type = type, on the cell get_cell_named returned.
store_named(self, key, cell, fresh) ==
    LET g == get_cell_named(self, key, fresh) IN
    IF g.ub # "none" THEN g
    ELSE Res([g.s EXCEPT !.hash.e[key] = cell], "none", Void, g.ev)

Parrot_pcc_signature_push_integer_named(self, key, value, fresh) ==
    store_named(self, key, Cell("INTCELL", value), fresh)

Parrot_pcc_signature_push_number_named(self, key, value, fresh) ==
    store_named(self, key, Cell("FLOATCELL", value), fresh)

Parrot_pcc_signature_push_string_named(self, key, value, fresh) ==
    store_named(self, key, Cell("STRINGCELL", value), fresh)

Parrot_pcc_signature_push_pmc_named(self, key, value, fresh) ==
    store_named(self, key, Cell("PMCCELL", value), fresh)

integer_named_cell(cell) ==
    IF cell.type = "INTCELL" THEN Returned(cell.u) ELSE autobox_intval(cell)

\* pmc_named_cell with the fast path taken for an integer cell as well.
pmc_named_cell_any_fast(cell) ==
    IF cell.type \in {"PMCCELL", "INTCELL"} THEN Returned(cell.u)
    ELSE autobox_pmc(cell)

pmc_named_cell(cell) ==
    IF cell.type = "PMCCELL" THEN Returned(cell.u) ELSE autobox_pmc(cell)

\* What a named get makes of the cell it has found.
named_cell(kind, cell) ==
    CASE kind = "INTVAL"   -> integer_named_cell(cell)
      [] kind = "FLOATVAL" -> autobox_floatval(cell)
      [] kind = "STRING"   -> autobox_string(cell)
      [] OTHER             -> pmc_named_cell(cell)

\* lookup_named that, like get_cell_named, makes a cell for a key it misses.
lookup_named_creating(self, key, zero, kind) ==
    IF self.hash.p = "NULL" THEN Res(self, "none", zero, <<>>)
    ELSE IF self.hash.p = "WILD"
    THEN Res(self, "Parrot_hash_get on a wild hash pointer", Void, <<>>)
    ELSE IF key \in DOMAIN self.hash.e
    THEN LET b == named_cell(kind, self.hash.e[key]) IN
         Res(self, b.ub, b.ret, <<<<"read", key>>>> \o b.via)
    ELSE Res([self EXCEPT !.hash.e =
                 [k \in DOMAIN self.hash.e \cup {key} |->
                     IF k = key THEN ZeroCell ELSE self.hash.e[k]]],
             "none", zero, <<<<"alloc", "pool", "cell">>>>)

\* if (self->hash) { cell = Parrot_hash_get(...); if (cell) found(cell) } zero
lookup_named(self, key, zero, kind) ==
    IF self.hash.p = "NULL" THEN Res(self, "none", zero, <<>>)
    ELSE IF self.hash.p = "WILD"
    THEN Res(self, "Parrot_hash_get on a wild hash pointer", Void, <<>>)
    ELSE IF key \in DOMAIN self.hash.e
    THEN LET b == named_cell(kind, self.hash.e[key]) IN
         Res(self, b.ub, b.ret, <<<<"read", key>>>> \o b.via)
    ELSE Res(self, "none", zero, <<>>)

Parrot_pcc_signature_get_integer_named(self, key) ==
    lookup_named(self, key, ZeroInt, "INTVAL")

Parrot_pcc_signature_get_number_named(self, key) ==
    lookup_named(self, key, ZeroNum, "FLOATVAL")

Parrot_pcc_signature_get_string_named(self, key) ==
    lookup_named(self, key, STRINGNULL, "STRING")

Parrot_pcc_signature_get_pmc_named(self, key) ==
    lookup_named(self, key, PMCNULL, "PMC")

Parrot_pcc_signature_exists_named(self, key) ==
    IF self.hash.p = "NULL" THEN Res(self, "none", ZeroInt, <<>>)
    ELSE IF self.hash.p = "WILD"
    THEN Res(self, "Parrot_hash_exists on a wild hash pointer", Void, <<>>)
    ELSE Res(self, "none",
             IF key \in DOMAIN self.hash.e THEN <<"i", 1>> ELSE ZeroInt, <<>>)

(***************************************************************************)
(* The lifecycle.                                                          *)
(***************************************************************************)
\* FREE_CELL of every bucket's value, in the order parrot_hash_iterate visits
\* the buckets (order: the keys of the table, each once), then
\* Parrot_hash_destroy.
FreeHash(h, order) ==
    [i \in 1..Len(order) |-> <<"free", "pool", "cell", order[i]>>]
        \o <<<<"free", "heap", "hash">>>>

Parrot_pcc_signature_reset(self, order) ==
    LET zeroed == [self EXCEPT !.num_positionals = 0] IN
    IF self.hash.p = "NULL" THEN Res(zeroed, "none", Void, <<>>)
    ELSE IF self.hash.p = "WILD"
    THEN Res(zeroed, "parrot_hash_iterate on a wild hash pointer", Void, <<>>)
    ELSE Res([zeroed EXCEPT !.hash = HashPtr("NULL", NoEntries)],
             "none", Void, FreeHash(self.hash, order))

Parrot_pcc_signature_free(self, order) ==
    LET pos == IF self.allocated_positionals # 0
               THEN <<FreePositionals(self)>> ELSE <<>>
    IN
    IF self.allocated_positionals # 0 /\ self.positionals.p # "OBJ"
    THEN Res(self, "release of a null or wild positionals pointer", Void, pos)
    ELSE IF self.hash.p = "WILD"
    THEN Res(self, "parrot_hash_iterate on a wild hash pointer", Void, pos)
    ELSE Res(NoSig, "none", Void,
             pos \o (IF self.hash.p = "OBJ" THEN FreeHash(self.hash, order) ELSE <<>>)
                 \o <<<<"free", "pool", "sig">>>>)

\* The words of the struct. get_hash takes a PMC and reads PMC_data(SELF);
\* handed the struct itself, it reads the word of the struct that lies where
\* a PMC keeps its data pointer, whichever the two layouts make it.
Words ==
    {"positionals", "num_positionals", "allocated_positionals", "hash",
     "type_tuple", "short_sig", "arg_flags", "return_flags"}

\* What the word is as a pointer: NULL, wild, or the address of an object.
DataWord(self, word) ==
    LET p == CASE word \in {"num_positionals", "allocated_positionals"} ->
                      IF self[word] = 0 THEN "NULL" ELSE "WILD"
               [] OTHER -> self[word].p
    IN IF p \in {"NULL", "WILD"} THEN p ELSE "OBJ"

NoPMC == "GETATTR_CallContext_hash of a struct that is no PMC"

\* get_hash(interp, SELF): GETATTR_CallContext_hash, and if the attribute is
\* null Parrot_hash_create and SETATTR_CallContext_hash. data is
\* PMC_data(SELF): "ATTRS" where SELF is a PMC whose attributes are the
\* fields of self; "NULL" or "WILD" where the read of the attribute goes
\* through no object; "OBJ" where it lands in another object, of which attr
\* is the word read as the attribute ("null" or "set"). A table made for a
\* null word is stored in that object and the struct is left as it was.
get_hash(self, data, attr) ==
    IF data = "ATTRS"
    THEN IF self.hash.p = "NULL"
         THEN Res([self EXCEPT !.hash = HashPtr("OBJ", NoEntries)], "none",
                  Void, <<<<"alloc", "heap", "hash">>>>)
         ELSE Res(self, "none", Void, <<>>)
    ELSE IF data = "OBJ" /\ attr = "null"
    THEN Res(self, NoPMC, Void, <<<<"alloc", "heap", "hash">>>>)
    ELSE Res(self, NoPMC, Void, <<>>)

\* VTABLE_clone of a metadata handle.
VTABLE_clone(h) ==
    IF h.p = "NULL" THEN [ub |-> "VTABLE_clone of a null handle", ret |-> h]
    ELSE IF h.p = "WILD" THEN [ub |-> "VTABLE_clone of a wild handle", ret |-> h]
    ELSE [ub |-> "none", ret |-> Handle("OBJ", h.id, h.dup + 1)]

\* The first of the faults in ubs that is one, or "none".
FirstFault(ubs) ==
    IF \E i \in 1..Len(ubs) : ubs[i] # "none"
    THEN ubs[CHOOSE i \in 1..Len(ubs) :
                 ubs[i] # "none" /\ \A j \in 1..(i - 1) : ubs[j] = "none"]
    ELSE "none"

\* Parrot_pcc_signature_clone: the struct it builds (s), and what the caller
\* gets. The function ends without a return statement, so a call that runs
\* to its end hands the caller an indeterminate pointer. Where the source has
\* a table, get_hash is handed dest, a struct, as its PMC: word is the word of
\* dest it reads as PMC_data, attr what it finds where that points.
Parrot_pcc_signature_clone(self, word, attr) ==
    LET dest == Parrot_pcc_signature_new
        n    == self.num_positionals
        e    == ensure_positionals_storage(dest, n)
        got  == <<<<"alloc", "pool", "sig">>>> \o e.ev
        copy == IF n = 0 THEN "none"
                ELSE IF e.s.positionals.p # "OBJ" \/ n < 0
                        \/ n > Len(e.s.positionals.c)
                THEN "memcpy into a null or wild positionals pointer"
                ELSE IF self.positionals.p # "OBJ" \/ n > Len(self.positionals.c)
                THEN "memcpy from a null or wild positionals pointer"
                ELSE "none"
        d1   == IF copy = "none" /\ n > 0
                THEN [e.s EXCEPT !.positionals.c =
                         [i \in 1..Len(e.s.positionals.c) |->
                             IF i <= n THEN self.positionals.c[i]
                             ELSE e.s.positionals.c[i]],
                         !.num_positionals = n]
                ELSE [e.s EXCEPT !.num_positionals = n]
        tt   == VTABLE_clone(self.type_tuple)
        af   == VTABLE_clone(self.arg_flags)
        rf   == VTABLE_clone(self.return_flags)
        d2   == [d1 EXCEPT !.type_tuple = tt.ret,
                           !.short_sig = Handle("INTERP", 0, 0),
                           !.arg_flags = af.ret,
                           !.return_flags = rf.ret]
        h    == get_hash(d2, DataWord(d2, word), attr)
        hub  == IF self.hash.p = "NULL" THEN "none" ELSE h.ub
        ub   == FirstFault(<<e.ub, copy, tt.ub, af.ub, rf.ub, hub,
                             "no return statement">>)
    IN
    CASE ub = e.ub   -> Res(e.s, ub, Void, got)
      [] ub = copy   -> Res(e.s, ub, Void, got)
      [] ub \in {tt.ub, af.ub, rf.ub} -> Res(d1, ub, Void, got)
      [] ub = hub    -> Res(h.s, ub, Void, got \o h.ev)
      [] OTHER       -> Res(d2, ub, Void, got)

(***************************************************************************)
(* Marking for the collector.                                              *)
(***************************************************************************)
\* The STRING a key of the named table is.
KeyString(k) == <<"s", <<k>>>>

\* The references whose reclamation is followed: the texts and objects a
\* caller pushes (the key strings are held by the caller throughout).
Refs == (StrVals \cup PmcVals) \ {STRINGNULL, PMCNULL}

\* The result of a marking function: the references handed to
\* Parrot_gc_mark_STRING_alive or Parrot_gc_mark_PMC_alive, in call order.
Marked(ub, marks) == [ub |-> ub, marks |-> marks]

mark_cell(c) ==
    CASE c.type = "STRINGCELL" ->
            Marked("none", IF c.u # STRINGNULL THEN <<c.u>> ELSE <<>>)
      [] c.type = "PMCCELL" ->
            Marked("none", IF c.u # PMCNULL THEN <<c.u>> ELSE <<>>)
      [] c.type \in {"INTCELL", "FLOATCELL", "ZERO"} -> Marked("none", <<>>)
      [] OTHER -> Marked("read of an unwritten cell", <<>>)

\* mark_cell of cells[1], ..., cells[n], until one is undefined.
RECURSIVE MarkCells(_, _)
MarkCells(cells, n) ==
    IF n = 0 THEN Marked("none", <<>>)
    ELSE LET before == MarkCells(cells, n - 1)
             m      == mark_cell(cells[n])
         IN IF before.ub # "none" THEN before
            ELSE Marked(m.ub, before.marks \o m.marks)

mark_positionals(self) ==
    IF self.num_positionals <= 0 THEN Marked("none", <<>>)
    ELSE IF self.positionals.p # "OBJ"
    THEN Marked("mark_cell through a null or wild positionals pointer", <<>>)
    ELSE IF self.num_positionals > Len(self.positionals.c)
    THEN Marked("mark_cell outside the positionals array", <<>>)
    ELSE MarkCells(self.positionals.c, self.num_positionals)

\* The orders in which parrot_hash_iterate may visit the keys S.
Orders(S) ==
    {o \in [1..Cardinality(S) -> S] :
        \A i, j \in 1..Cardinality(S) : o[i] = o[j] => i = j}

\* mark_hash, the buckets visited in order: the key, then the cell.
RECURSIVE MarkBuckets(_, _, _)
MarkBuckets(e, order, n) ==
    IF n = 0 THEN Marked("none", <<>>)
    ELSE LET before == MarkBuckets(e, order, n - 1)
             m      == mark_cell(e[order[n]])
         IN IF before.ub # "none" THEN before
            ELSE Marked(m.ub,
                        before.marks \o <<KeyString(order[n])>> \o m.marks)

mark_hash(h, order) ==
    IF h.p = "NULL" THEN Marked("parrot_hash_iterate on a null hash", <<>>)
    ELSE IF h.p = "WILD"
    THEN Marked("parrot_hash_iterate on a wild hash pointer", <<>>)
    ELSE MarkBuckets(h.e, order, Len(order))

\* The marking hook of the signature, which the collector calls:
\* mark_positionals, then mark_hash if there is a table.
mark(self, order) ==
    LET p == mark_positionals(self) IN
    IF p.ub # "none" \/ self.hash.p = "NULL" THEN p
    ELSE LET h == mark_hash(self.hash, order) IN
         Marked(h.ub, p.marks \o h.marks)

\* The orders the table of self may be visited in.
HashOrders(self) ==
    IF self.hash.p = "OBJ" THEN Orders(DOMAIN self.hash.e) ELSE {<<>>}

\* Parrot_pcc_signature_num_positionals
Parrot_pcc_signature_num_positionals(self) ==
    Res(self, "none", <<"i", self.num_positionals>>, <<>>)

NumPositionals(s) ==
    /\ fault = "none"
    /\ sigs[s].live
    /\ Finish("num_positionals", s, 0, "", Void,
              Parrot_pcc_signature_num_positionals(sigs[s]), calls[s])

\* The indexes a caller reads at.
Indexes ==
    (-1 .. MaxPush + 1)
        \cup { FilledINTVAL(MemsetByte) + d : d \in {-1, 0, 1} }

Live(s) == fault = "none" /\ sigs[s].live
CanPush(s) ==
    Live(s) /\ (sigs[s].positionals.p = "OBJ" => sigs[s].num_positionals < MaxPush)

PushInteger(s) ==
    /\ CanPush(s)
    /\ \E v \in IntVals :
           Finish("push_integer", s, 0, "", v,
                  Parrot_pcc_signature_push_integer(sigs[s], v),
                  AfterPush(calls[s], Cell("INTCELL", v)))

PushFloat(s) ==
    /\ CanPush(s)
    /\ \E v \in FloatVals :
           Finish("push_float", s, 0, "", v,
                  Parrot_pcc_signature_push_float(sigs[s], v),
                  AfterPush(calls[s], Cell("FLOATCELL", v)))

PushString(s) ==
    /\ CanPush(s)
    /\ \E v \in StrVals :
           Finish("push_string", s, 0, "", v,
                  Parrot_pcc_signature_push_string(sigs[s], v),
                  AfterPush(calls[s], Cell("STRINGCELL", v)))

PushPmc(s) ==
    /\ CanPush(s)
    /\ \E v \in PmcVals, asserting \in BOOLEAN :
           Finish("push_pmc", s, 0, "", v,
                  Parrot_pcc_signature_push_pmc(sigs[s], v, asserting),
                  AfterPush(calls[s], Cell("PMCCELL", v)))

GetInteger(s) ==
    /\ Live(s)
    /\ \E key \in Indexes :
           Finish("get_integer", s, key, "", Void,
                  Parrot_pcc_signature_get_integer(sigs[s], key), calls[s])

GetNumber(s) ==
    /\ Live(s)
    /\ \E key \in Indexes :
           Finish("get_number", s, key, "", Void,
                  Parrot_pcc_signature_get_number(sigs[s], key), calls[s])

GetString(s) ==
    /\ Live(s)
    /\ \E key \in Indexes :
           Finish("get_string", s, key, "", Void,
                  Parrot_pcc_signature_get_string(sigs[s], key), calls[s])

GetPmc(s) ==
    /\ Live(s)
    /\ \E key \in Indexes :
           Finish("get_pmc", s, key, "", Void,
                  Parrot_pcc_signature_get_pmc(sigs[s], key), calls[s])

PushIntegerNamed(s) ==
    /\ Live(s)
    /\ \E key \in Keys, v \in IntVals, fresh \in FreshCells :
           Finish("push_integer_named", s, 0, key, v,
                  Parrot_pcc_signature_push_integer_named(sigs[s], key, v, fresh),
                  AfterNamed(calls[s], key))

PushNumberNamed(s) ==
    /\ Live(s)
    /\ \E key \in Keys, v \in FloatVals, fresh \in FreshCells :
           Finish("push_number_named", s, 0, key, v,
                  Parrot_pcc_signature_push_number_named(sigs[s], key, v, fresh),
                  AfterNamed(calls[s], key))

PushStringNamed(s) ==
    /\ Live(s)
    /\ \E key \in Keys, v \in StrVals, fresh \in FreshCells :
           Finish("push_string_named", s, 0, key, v,
                  Parrot_pcc_signature_push_string_named(sigs[s], key, v, fresh),
                  AfterNamed(calls[s], key))

PushPmcNamed(s) ==
    /\ Live(s)
    /\ \E key \in Keys, v \in PmcVals, fresh \in FreshCells :
           Finish("push_pmc_named", s, 0, key, v,
                  Parrot_pcc_signature_push_pmc_named(sigs[s], key, v, fresh),
                  AfterNamed(calls[s], key))

GetIntegerNamed(s) ==
    /\ Live(s)
    /\ \E key \in Keys :
           Finish("get_integer_named", s, 0, key, Void,
                  Parrot_pcc_signature_get_integer_named(sigs[s], key), calls[s])

GetNumberNamed(s) ==
    /\ Live(s)
    /\ \E key \in Keys :
           Finish("get_number_named", s, 0, key, Void,
                  Parrot_pcc_signature_get_number_named(sigs[s], key), calls[s])

GetStringNamed(s) ==
    /\ Live(s)
    /\ \E key \in Keys :
           Finish("get_string_named", s, 0, key, Void,
                  Parrot_pcc_signature_get_string_named(sigs[s], key), calls[s])

GetPmcNamed(s) ==
    /\ Live(s)
    /\ \E key \in Keys :
           Finish("get_pmc_named", s, 0, key, Void,
                  Parrot_pcc_signature_get_pmc_named(sigs[s], key), calls[s])

ExistsNamed(s) ==
    /\ Live(s)
    /\ \E key \in Keys :
           Finish("exists_named", s, 0, key, Void,
                  Parrot_pcc_signature_exists_named(sigs[s], key), calls[s])

Reset(s) ==
    /\ Live(s)
    /\ \E order \in HashOrders(sigs[s]) :
           Finish("reset", s, 0, "", Void,
                  Parrot_pcc_signature_reset(sigs[s], order), AfterReset(calls[s]))

Free(s) ==
    /\ Live(s)
    /\ \E order \in HashOrders(sigs[s]) :
           Finish("free", s, 0, "", Void,
                  Parrot_pcc_signature_free(sigs[s], order), NoneMade)

\* clone of signature s; the struct it builds takes the unused slot d, and
\* last.pre is the source.
Clone(s, d) ==
    /\ Live(s)
    /\ ~sigs[d].live
    /\ UNCHANGED swept
    /\ \E word \in Words, attr \in {"null", "set"} :
       LET r == Parrot_pcc_signature_clone(sigs[s], word, attr) IN
       /\ sigs' = [sigs EXCEPT ![d] = r.s]
       /\ fault' = r.ub
       /\ calls' = IF r.ub = "none"
                   THEN [calls EXCEPT ![d] =
                            Made(calls[s].pushed, calls[s].named, 0, FALSE)]
                   ELSE calls
       /\ \E o \in (IF r.ub = "none" THEN {<<"sig", d>>} ELSE Outcomes(r.ub)) :
              last' = Call("clone", s, d, "", Void, o, sigs[s], r.ev)

\* The collector calls the marking hook of signature s.
Mark(s) ==
    /\ Live(s)
    /\ \E order \in HashOrders(sigs[s]) :
           LET m == mark(sigs[s], order) IN
           Finish("mark", s, 0, "", Void,
                  Res(sigs[s], m.ub, <<"marks", m.marks>>, <<>>), calls[s])

\* The elements of a sequence.
Range(seq) == {seq[i] : i \in 1..Len(seq)}

\* A collector cycle: the mark phase calls the hook of every live signature,
\* the sweep reclaims every reference that neither a hook nor another root
\* (roots) has marked.
Collect ==
    /\ fault = "none"
    /\ \E roots \in SUBSET Refs :
       \E order \in {f \in [SigIds -> UNION {HashOrders(sigs[s]) : s \in SigIds}] :
                        \A s \in SigIds : f[s] \in HashOrders(sigs[s])} :
           LET m    == [s \in SigIds |->
                           IF sigs[s].live THEN mark(sigs[s], order[s])
                           ELSE Marked("none", <<>>)]
               ub   == FirstFault([s \in SigIds |-> m[s].ub])
               kept == roots \cup UNION {Range(m[s].marks) : s \in SigIds}
           IN
           /\ fault' = ub
           /\ swept' = IF ub = "none" THEN swept \cup (Refs \ kept) ELSE swept
           /\ \E o \in (IF ub = "none" THEN {<<"swept", Refs \ kept>>}
                       ELSE Outcomes(ub)) :
                  last' = Call("collect", 0, 0, "", Void, o, NoSig, <<>>)
           /\ UNCHANGED <<sigs, calls>>

Next ==
    \/ \E s \in SigIds : New(s)
    \/ \E s \in SigIds : NumPositionals(s)
    \/ \E s \in SigIds : PushInteger(s)
    \/ \E s \in SigIds : PushFloat(s)
    \/ \E s \in SigIds : PushString(s)
    \/ \E s \in SigIds : PushPmc(s)
    \/ \E s \in SigIds : GetInteger(s)
    \/ \E s \in SigIds : GetNumber(s)
    \/ \E s \in SigIds : GetString(s)
    \/ \E s \in SigIds : GetPmc(s)
    \/ \E s \in SigIds : PushIntegerNamed(s)
    \/ \E s \in SigIds : PushNumberNamed(s)
    \/ \E s \in SigIds : PushStringNamed(s)
    \/ \E s \in SigIds : PushPmcNamed(s)
    \/ \E s \in SigIds : GetIntegerNamed(s)
    \/ \E s \in SigIds : GetNumberNamed(s)
    \/ \E s \in SigIds : GetStringNamed(s)
    \/ \E s \in SigIds : GetPmcNamed(s)
    \/ \E s \in SigIds : ExistsNamed(s)
    \/ \E s \in SigIds : Reset(s)
    \/ \E s \in SigIds : Free(s)
    \/ \E s, d \in SigIds : Clone(s, d)
    \/ \E s \in SigIds : Mark(s)
    \/ Collect

Spec == Init /\ [][Next]_vars

(***************************************************************************)
(* The read operations as functions of the struct they are handed: the     *)
(* struct is drawn from Args, the reads are applied to it.                 *)
(***************************************************************************)
MixCells ==
    {Cell("INTCELL", v) : v \in IntVals} \cup {Cell("FLOATCELL", v) : v \in FloatVals}
        \cup {Cell("STRINGCELL", v) : v \in StrVals}
        \cup {Cell("PMCCELL", v) : v \in PmcVals}

\* The struct after the positional pushes of cells, in order, onto self.
RECURSIVE Pushed(_, _)
Pushed(self, cells) ==
    IF cells = <<>> THEN self
    ELSE Pushed(store_positional(self, self.num_positionals, Head(cells)).s,
                Tail(cells))

\* The pushes the structs are built by: none, or n pushes of the integer 0
\* but for one, at any place, of any cell.
PushedCells ==
    {<<>>} \cup
    {[i \in 1..n |-> IF i = j THEN c ELSE Cell("INTCELL", ZeroInt)] :
        <<n, j>> \in {<<n, j>> \in (1..MaxPush) \X (1..MaxPush) :
                         n \in {1, 2, SmallSlots, MaxPush} /\ j <= n},
        c \in MixCells}

Tables ==
    {NoEntries} \cup {[k \in {key} |-> c] : key \in Keys, c \in MixCells}

\* The structs the reads are applied to, each with its caller's record: the
\* one new returns, a zero-filled one after positional pushes, and a
\* zero-filled one holding a named table.
Args ==
    {<<Parrot_pcc_signature_new, NoneMade>>}
        \cup {<<Pushed(MemsetSig(0), cs), Made(cs, {}, 0, FALSE)>> :
                 cs \in PushedCells}
        \cup {<<[MemsetSig(0) EXCEPT !.hash = HashPtr("OBJ", e)],
                Made(<<>>, DOMAIN e, 0, FALSE)>> : e \in Tables}

InitRead ==
    /\ \E a \in Args :
          /\ sigs = [s \in SigIds |-> IF s = 1 THEN a[1] ELSE NoSig]
          /\ calls = [s \in SigIds |-> IF s = 1 THEN a[2] ELSE NoneMade]
    /\ fault = "none"
    /\ last = NoCall
    /\ swept = {}

NextRead ==
    \/ \E s \in SigIds : NumPositionals(s)
    \/ \E s \in SigIds : GetInteger(s)
    \/ \E s \in SigIds : GetNumber(s)
    \/ \E s \in SigIds : GetString(s)
    \/ \E s \in SigIds : GetPmc(s)
    \/ \E s \in SigIds : GetIntegerNamed(s)
    \/ \E s \in SigIds : GetNumberNamed(s)
    \/ \E s \in SigIds : GetStringNamed(s)
    \/ \E s \in SigIds : GetPmcNamed(s)
    \/ \E s \in SigIds : ExistsNamed(s)

SpecRead == InitRead /\ [][NextRead]_vars

(***************************************************************************)
(* Every operation as a function of the struct it is handed: the struct is *)
(* drawn from ArgsStore and one operation is applied to it.                *)
(***************************************************************************)
\* A zero-filled struct whose call site has set the four metadata handles.
WithHandles ==
    [MemsetSig(0) EXCEPT !.type_tuple = Handle("OBJ", 1, 0),
                         !.short_sig = Handle("OBJ", 2, 0),
                         !.arg_flags = Handle("OBJ", 3, 0),
                         !.return_flags = Handle("OBJ", 4, 0)]

\* The tables of every key: any cell under "x", the integer 0 under the rest.
FullTables ==
    {[k \in Keys |-> IF k = "x" THEN c ELSE Cell("INTCELL", ZeroInt)] :
        c \in MixCells}

\* The structs of Args, the ones that were pushed onto and then reset, the
\* ones holding a table of every key, and the one with the handles set,
\* without a table and with one.
ArgsStore ==
    Args \cup {<<Parrot_pcc_signature_reset(Pushed(MemsetSig(0), cs), <<>>).s,
                 AfterReset(Made(cs, {}, 0, FALSE))>> : cs \in PushedCells}
         \cup {<<[MemsetSig(0) EXCEPT !.hash = HashPtr("OBJ", e)],
                 Made(<<>>, DOMAIN e, 0, FALSE)>> : e \in FullTables}
         \cup {<<WithHandles, NoneMade>>}
         \cup {<<[WithHandles EXCEPT !.hash = HashPtr("OBJ", e)],
                 Made(<<>>, DOMAIN e, 0, FALSE)>> :
                    e \in {NoEntries, [k \in {"x"} |-> Cell("INTCELL", <<"i", 42>>)]}}

InitStore ==
    /\ \E a \in ArgsStore :
          /\ sigs = [s \in SigIds |-> IF s = 1 THEN a[1] ELSE NoSig]
          /\ calls = [s \in SigIds |-> IF s = 1 THEN a[2] ELSE NoneMade]
    /\ fault = "none"
    /\ last = NoCall
    /\ swept = {}

\* No operation has been applied to the struct yet.
FromArgs == last.op = "none"

NextStore ==
    \/ \E s \in SigIds : FromArgs /\ New(s)
    \/ \E s \in SigIds : FromArgs /\ NumPositionals(s)
    \/ \E s \in SigIds : FromArgs /\ PushInteger(s)
    \/ \E s \in SigIds : FromArgs /\ PushFloat(s)
    \/ \E s \in SigIds : FromArgs /\ PushString(s)
    \/ \E s \in SigIds : FromArgs /\ PushPmc(s)
    \/ \E s \in SigIds : FromArgs /\ GetInteger(s)
    \/ \E s \in SigIds : FromArgs /\ GetNumber(s)
    \/ \E s \in SigIds : FromArgs /\ GetString(s)
    \/ \E s \in SigIds : FromArgs /\ GetPmc(s)
    \/ \E s \in SigIds : FromArgs /\ PushIntegerNamed(s)
    \/ \E s \in SigIds : FromArgs /\ PushNumberNamed(s)
    \/ \E s \in SigIds : FromArgs /\ PushStringNamed(s)
    \/ \E s \in SigIds : FromArgs /\ PushPmcNamed(s)
    \/ \E s \in SigIds : FromArgs /\ GetIntegerNamed(s)
    \/ \E s \in SigIds : FromArgs /\ GetNumberNamed(s)
    \/ \E s \in SigIds : FromArgs /\ GetStringNamed(s)
    \/ \E s \in SigIds : FromArgs /\ GetPmcNamed(s)
    \/ \E s \in SigIds : FromArgs /\ ExistsNamed(s)
    \/ \E s \in SigIds : FromArgs /\ Reset(s)
    \/ \E s \in SigIds : FromArgs /\ Free(s)
    \/ \E s, d \in SigIds : FromArgs /\ Clone(s, d)
    \/ \E s \in SigIds : FromArgs /\ Mark(s)
    \/ FromArgs /\ Collect

SpecStore == InitStore /\ [][NextStore]_vars
(***************************************************************************)
(* The calls, by kind.                                                     *)
(***************************************************************************)
PosPushes == {"push_integer", "push_float", "push_string", "push_pmc"}
PosGets == {"get_integer", "get_number", "get_string", "get_pmc"}
NamedPushes ==
    {"push_integer_named", "push_number_named", "push_string_named",
     "push_pmc_named"}
NamedGets ==
    {"get_integer_named", "get_number_named", "get_string_named",
     "get_pmc_named"}

\* The zero value of the kind a read returns.
ZeroOf(op) ==
    CASE op \in {"get_integer", "get_integer_named", "exists_named"} -> ZeroInt
      [] op \in {"get_number", "get_number_named"} -> ZeroNum
      [] op \in {"get_string", "get_string_named"} -> STRINGNULL
      [] OTHER -> PMCNULL

\* The cell type a named push writes.
TypeOf(op) ==
    CASE op = "push_integer_named" -> "INTCELL"
      [] op = "push_number_named"  -> "FLOATCELL"
      [] op = "push_string_named"  -> "STRINGCELL"
      [] OTHER                     -> "PMCCELL"

\* The get of a cell type's own kind, by index and by name.
NativeGet(self, key, type) ==
    CASE type = "INTCELL"    -> Parrot_pcc_signature_get_integer(self, key)
      [] type = "FLOATCELL"  -> Parrot_pcc_signature_get_number(self, key)
      [] type = "STRINGCELL" -> Parrot_pcc_signature_get_string(self, key)
      [] OTHER               -> Parrot_pcc_signature_get_pmc(self, key)

NativeGetNamed(self, key, type) ==
    CASE type = "INTCELL"    -> Parrot_pcc_signature_get_integer_named(self, key)
      [] type = "FLOATCELL"  -> Parrot_pcc_signature_get_number_named(self, key)
      [] type = "STRINGCELL" -> Parrot_pcc_signature_get_string_named(self, key)
      [] OTHER               -> Parrot_pcc_signature_get_pmc_named(self, key)

Absent(h) == h.p # "OBJ"
Handles(self) ==
    <<self.type_tuple, self.short_sig, self.arg_flags, self.return_flags>>
NoAllocation(ev) == \A i \in 1..Len(ev) : ev[i][1] \notin {"alloc", "free"}

(***************************************************************************)
(* The claims.                                                             *)
(***************************************************************************)

\* C1: after N positional pushes of any kinds onto a signature returned by
\* new, every push has returned, num_positionals returns N, and the get of
\* the i-th pushed value's own kind at index i returns that value.
C1_PushesReadBack ==
    /\ last.op \in PosPushes => fault = "none"
    /\ \A s \in SigIds :
          (fault = "none" /\ sigs[s].live) =>
              LET pushed == calls[s].pushed IN
              /\ Parrot_pcc_signature_num_positionals(sigs[s]).ret
                     = <<"i", Len(pushed)>>
              /\ \A i \in 1..Len(pushed) :
                     LET g == NativeGet(sigs[s], i - 1, pushed[i].type) IN
                     g.ub = "none" /\ g.ret = pushed[i].u

\* C2: immediately after new the signature is fresh: num_positionals returns
\* 0, the capacity is 0 with no backing array, the named table is absent
\* (exists_named is false for every key) and every metadata handle is absent.
C2_NewIsFresh ==
    last.op = "new" =>
        LET self == sigs[last.sig] IN
        /\ Parrot_pcc_signature_num_positionals(self).ret = ZeroInt
        /\ self.allocated_positionals = 0
        /\ self.positionals.p = "NULL"
        /\ self.hash.p = "NULL"
        /\ \A k \in Keys :
               LET e == Parrot_pcc_signature_exists_named(self, k) IN
               e.ub = "none" /\ e.ret = ZeroInt
        /\ \A i \in 1..4 : Handles(self)[i].p = "NULL"

\* C3: a positional get at an index i >= num_positionals or i < 0 returns the
\* zero value of its kind, runs into no error and reads no slot.
C3_OutOfRangeGetIsZero ==
    (/\ last.op \in PosGets
     /\ (last.idx >= last.pre.num_positionals \/ last.idx < 0)) =>
        /\ fault = "none"
        /\ last.ret = ZeroOf(last.op)
        /\ last.ev = <<>>

\* A get at the first index that is out of range has returned zero.
C3_Witness ==
    /\ last.op = "get_integer"
    /\ last.pre.live
    /\ last.idx = last.pre.num_positionals
    /\ fault = "none"
    /\ last.ret = ZeroInt

\* C4: a named push on a signature whose named table is absent creates the
\* table and a cell for the key: afterwards exists_named(key) is true and the
\* named get of the pushed value's kind returns the pushed value.
C4_NamedPushCreatesTable ==
    (last.op \in NamedPushes /\ Absent(last.pre.hash)) =>
        /\ fault = "none"
        /\ sigs[last.sig].hash.p = "OBJ"
        /\ Parrot_pcc_signature_exists_named(sigs[last.sig], last.key).ret
               = <<"i", 1>>
        /\ NativeGetNamed(sigs[last.sig], last.key, TypeOf(last.op)).ret
               = last.arg

\* C5: every named push returns and leaves one entry for its key, holding
\* the pushed kind and value, with exists_named(key) true; a push of a key
\* that is already there reuses its cell and adds no entry.
C5_NamedPushOverwrites ==
    last.op \in NamedPushes =>
        /\ fault = "none"
        /\ sigs[last.sig].hash.p = "OBJ"
        /\ last.key \in DOMAIN sigs[last.sig].hash.e
        /\ sigs[last.sig].hash.e[last.key] = Cell(TypeOf(last.op), last.arg)
        /\ Parrot_pcc_signature_exists_named(sigs[last.sig], last.key).ret
               = <<"i", 1>>
        /\ (~Absent(last.pre.hash) /\ last.key \in DOMAIN last.pre.hash.e) =>
               /\ DOMAIN sigs[last.sig].hash.e = DOMAIN last.pre.hash.e
               /\ NoAllocation(last.ev)

\* C6: when the named table is absent or lacks the key, a named get returns
\* the zero value of its kind and exists_named returns false, and neither
\* creates the table or a cell.
C6_AbsentKeyReadsZero ==
    (/\ last.op \in NamedGets \cup {"exists_named"}
     /\ (Absent(last.pre.hash) \/ last.key \notin DOMAIN last.pre.hash.e)) =>
        /\ fault = "none"
        /\ last.ret = ZeroOf(last.op)
        /\ sigs[last.sig] = last.pre
        /\ NoAllocation(last.ev)

\* C7: exists_named(key) is true exactly when the table is present and a
\* named push of the key has returned since the table was created.
C7_ExistsIffPushed ==
    last.op = "exists_named" =>
        /\ fault = "none"
        /\ (last.ret = <<"i", 1>>)
               <=> (~Absent(last.pre.hash) /\ last.key \in calls[last.sig].named)

\* C8: reset sets num_positionals to 0 and destroys the named table
\* (afterwards absent, exists_named false for every key), and leaves the
\* capacity, the backing array and the metadata handles as they were.
C8_ResetFrame ==
    last.op = "reset" =>
        LET self == sigs[last.sig] IN
        /\ fault = "none"
        /\ self.num_positionals = 0
        /\ self.hash.p = "NULL"
        /\ \A k \in Keys :
               Parrot_pcc_signature_exists_named(self, k).ret = ZeroInt
        /\ self.allocated_positionals = last.pre.allocated_positionals
        /\ self.positionals = last.pre.positionals
        /\ Handles(self) = Handles(last.pre)

\* C9: num_positionals read right after reset is 0, and after a reset a push
\* that keeps the count within the count held before the reset returns
\* without allocating or releasing a positional array.
C9_ResetReusesCapacity ==
    /\ last.op = "reset" =>
           /\ fault = "none"
           /\ Parrot_pcc_signature_num_positionals(sigs[last.sig]).ret = ZeroInt
    /\ (/\ last.op \in PosPushes
        /\ calls[last.sig].wasReset
        /\ last.pre.num_positionals < calls[last.sig].hwm) =>
           /\ fault = "none"
           /\ NoAllocation(last.ev)

\* C10: clone returns a new signature with the source's count, the source's
\* cell at every index below it and the source's named keys with equal
\* cells, and leaves the source as it was.
C10_CloneCopies ==
    last.op = "clone" =>
        LET src == last.pre
            dst == sigs[last.idx]
        IN
        /\ fault = "none"
        /\ last.ret = <<"sig", last.idx>>
        /\ dst.live
        /\ dst.num_positionals = src.num_positionals
        /\ src.num_positionals > 0 =>
               /\ dst.positionals.p = "OBJ"
               /\ \A i \in 1..src.num_positionals :
                      dst.positionals.c[i] = src.positionals.c[i]
        /\ Absent(dst.hash) <=> Absent(src.hash)
        /\ ~Absent(src.hash) => dst.hash.e = src.hash.e
        /\ sigs[last.sig] = src

\* The cells a signature holds: its positional slots below the count and its
\* named cells.
HeldCells(self) ==
    (IF self.positionals.p = "OBJ"
     THEN {self.positionals.c[i] :
              i \in {j \in 1..Len(self.positionals.c) : j <= self.num_positionals}}
     ELSE {})
    \cup (IF self.hash.p = "OBJ"
          THEN {self.hash.e[k] : k \in DOMAIN self.hash.e} ELSE {})

\* The text and object references among cells.
RefsOf(cells) ==
    {c.u : c \in {d \in cells : /\ d.type \in {"STRINGCELL", "PMCCELL"}
                                /\ d.u \notin {STRINGNULL, PMCNULL}}}

\* How many slots and named cells of self hold the reference r.
Holders(self, r) ==
    (IF self.positionals.p = "OBJ"
     THEN Cardinality({i \in 1..Len(self.positionals.c) :
                          /\ i <= self.num_positionals
                          /\ {r} = RefsOf({self.positionals.c[i]})})
     ELSE 0)
    + (IF self.hash.p = "OBJ"
       THEN Cardinality({k \in DOMAIN self.hash.e : {r} = RefsOf({self.hash.e[k]})})
       ELSE 0)

Occurrences(seq, r) == Cardinality({i \in 1..Len(seq) : seq[i] = r})

AllocsOf(ev, what) ==
    Cardinality({i \in 1..Len(ev) : ev[i][1] = "alloc" /\ ev[i][3] = what})

\* C11: after clone the source and the clone share no mutable state: clone
\* returns another signature whose positional array, named table and named
\* cells are allocations of its own, so that no push or reset on one of the
\* two changes what is read from the other.
C11_CloneSharesNothing ==
    last.op = "clone" =>
        LET src == last.pre IN
        /\ fault = "none"
        /\ last.ret = <<"sig", last.idx>>
        /\ last.idx # last.sig
        /\ sigs[last.sig] = src
        /\ src.num_positionals > 0 => AllocsOf(last.ev, "array") = 1
        /\ ~Absent(src.hash) =>
               /\ AllocsOf(last.ev, "hash") = 1
               /\ AllocsOf(last.ev, "cell") = Cardinality(DOMAIN src.hash.e)

\* C12: the mark operation reports exactly the live text and object
\* references the signature holds in its positional slots below the count and
\* in its named cells: each once per cell that holds it, nothing else, in
\* whatever order the table is visited; integer and float cells and null
\* references are not marked.
C12_MarkReportsHeld ==
    last.op = "mark" =>
        /\ fault = "none"
        /\ LET marks == last.ret[2] IN
           /\ \A i \in 1..Len(marks) : marks[i] \in RefsOf(HeldCells(last.pre))
           /\ \A r \in RefsOf(HeldCells(last.pre)) :
                  Occurrences(marks, r) = Holders(last.pre, r)

\* C13: a collector cycle, at any point between the operations, completes
\* and sweeps no text or object reference that a positional slot below the
\* count or a named cell of a live signature holds.
C13_NoHeldReferenceSwept ==
    last.op = "collect" =>
        /\ fault = "none"
        /\ \A s \in SigIds :
               sigs[s].live => RefsOf(HeldCells(sigs[s])) \cap last.ret[2] = {}

\* C14: a positional push of an object that is on the free list is rejected
\* with an error before any change to the signature, and no other operation
\* on a live signature ends in an error.
C14_DeadPushRejected ==
    /\ (last.op = "push_pmc" /\ last.arg \in swept) =>
           /\ fault = AssertionFailed
           /\ last.ret = <<"aborted">>
           /\ sigs[last.sig] = last.pre
    /\ fault # "none" =>
           /\ fault = AssertionFailed
           /\ last.op = "push_pmc"
           /\ last.arg \in swept

\* The kind a get returns.
TargetOf(op) ==
    CASE op \in {"get_integer", "get_integer_named"} -> "INTCELL"
      [] op \in {"get_number", "get_number_named"}   -> "FLOATCELL"
      [] op \in {"get_string", "get_string_named"}   -> "STRINGCELL"
      [] OTHER                                       -> "PMCCELL"

\* The get of last has found a cell: a positional get within the count of an
\* array, or a named get of a key of the table.
FoundCell ==
    \/ /\ last.op \in PosGets
       /\ last.pre.positionals.p = "OBJ"
       /\ last.idx >= 0
       /\ last.idx < last.pre.num_positionals
       /\ last.idx < Len(last.pre.positionals.c)
    \/ /\ last.op \in NamedGets
       /\ last.pre.hash.p = "OBJ"
       /\ last.key \in DOMAIN last.pre.hash.e

\* The cell it has found.
TheCell ==
    IF last.op \in PosGets THEN last.pre.positionals.c[last.idx + 1]
    ELSE last.pre.hash.e[last.key]

\* The calls out of the coercion the get of last has made.
CallsMade == {last.ev[i][2] : i \in {j \in 1..Len(last.ev) : last.ev[j][1] = "call"}}

\* The integer the texts of StrVals spell.
Spelled(str) == IF str = <<"s", <<"4", "2">>>> THEN 42 ELSE 0

\* C15: a stored cell of kind K read at target kind T, by index or by name,
\* yields: the stored value when K = T; the widened integer; the float
\* truncated toward zero; the number a text spells, 0 for a null or
\* unparsable text; what the object's get_integer, get_number or get_string
\* returns; a new box of the value's kind for a non-object read as object;
\* and an object cell read as object comes back as it is, with no call made.
C15_CoercionTable ==
    (FoundCell /\ TheCell.type \in {"INTCELL", "FLOATCELL", "STRINGCELL", "PMCCELL"}) =>
        LET K == TheCell.type
            T == TargetOf(last.op)
            v == TheCell.u
            r == last.ret
        IN
        /\ fault = "none"
        /\ K = T => r = v
        /\ (K = "INTCELL" /\ T = "FLOATCELL") => r = <<"n", 2 * v[2]>>
        /\ (K = "FLOATCELL" /\ T = "INTCELL") =>
               /\ r[1] = "i"
               /\ r[2] * v[2] >= 0
               /\ \E m \in {r[2], 0 - r[2]} :
                      \E a \in {v[2], 0 - v[2]} :
                          m >= 0 /\ a >= 0 /\ 2 * m <= a /\ a < 2 * m + 2
        /\ (K = "STRINGCELL" /\ T = "INTCELL") => r = <<"i", Spelled(v)>>
        /\ (K = "STRINGCELL" /\ T = "FLOATCELL") => r = <<"n", 2 * Spelled(v)>>
        /\ (K = "PMCCELL" /\ T = "INTCELL") =>
               r = VTABLE_get_integer(v).ret /\ CallsMade = {"VTABLE_get_integer"}
        /\ (K = "PMCCELL" /\ T = "FLOATCELL") =>
               r = VTABLE_get_number(v).ret /\ CallsMade = {"VTABLE_get_number"}
        /\ (K = "PMCCELL" /\ T = "STRINGCELL") =>
               r = VTABLE_get_string(v).ret /\ CallsMade = {"VTABLE_get_string"}
        /\ (K # "PMCCELL" /\ T = "PMCCELL") =>
               /\ r = <<"box", v[1], v>>
               /\ v[1] = (CASE K = "INTCELL" -> "i" [] K = "FLOATCELL" -> "n"
                            [] OTHER -> IF v = STRINGNULL THEN "snull" ELSE "s")
        /\ (K = "PMCCELL" /\ T = "PMCCELL") => CallsMade = {}

\* A float cell holding -1.5 read as integer has given -1.
C15_Witness ==
    /\ FoundCell
    /\ last.op \in {"get_integer", "get_integer_named"}
    /\ TheCell = Cell("FLOATCELL", <<"n", -3>>)
    /\ fault = "none"
    /\ last.ret = <<"i", -1>>

\* C16: in every state the program reaches, every signature (the one clone
\* builds included) has count <= capacity, and no operation but free has made
\* the capacity of the signature it was called on smaller.
C16_CountWithinCapacity ==
    /\ \A s \in SigIds :
           sigs[s].live =>
               sigs[s].num_positionals <= sigs[s].allocated_positionals
    /\ (last.sig \in SigIds /\ last.op \notin {"new", "free"}) =>
           /\ sigs[last.sig].live
           /\ sigs[last.sig].allocated_positionals
                  >= last.pre.allocated_positionals

\* A push onto a full array of 8 slots has returned with a larger capacity.
C16_Witness ==
    /\ last.op \in PosPushes
    /\ fault = "none"
    /\ last.pre.num_positionals = SmallSlots
    /\ last.pre.allocated_positionals = SmallSlots
    /\ sigs[last.sig].allocated_positionals > SmallSlots
    /\ sigs[last.sig].num_positionals = sigs[last.sig].allocated_positionals

\* The allocations and releases of positional arrays among events.
ArrayEvents(ev) ==
    {i \in 1..Len(ev) : ev[i][1] \in {"alloc", "free"} /\ ev[i][3] = "array"}

\* C17: on a signature from new, the first positional push allocates 8 slots
\* from the fixed-size pool and nothing else, pushes 2 to 8 allocate and
\* release no array, and push 9 allocates one chunk and releases the pooled
\* array; below 9 pushes the array is never a chunk.
C17_GrowthBoundary ==
    (last.op \in PosPushes /\ ~calls[last.sig].wasReset) =>
        /\ fault = "none"
        /\ LET n   == Len(calls[last.sig].pushed)
               ev  == last.ev
               arr == ArrayEvents(ev)
           IN
           /\ n = 1 =>
                  /\ Cardinality(arr) = 1
                  /\ \A i \in arr : /\ ev[i][1] = "alloc" /\ ev[i][2] = "pool"
                                    /\ ev[i][4] = SmallSlots
           /\ (n >= 2 /\ n <= SmallSlots) => arr = {}
           /\ n = SmallSlots + 1 =>
                  /\ Cardinality(arr) = 2
                  /\ \E i \in arr : ev[i][1] = "alloc" /\ ev[i][2] = "chunk"
                  /\ \E i \in arr : ev[i][1] = "free" /\ ev[i][2] = "pool"
                  /\ last.pre.positionals.tier = "pool"
                  /\ sigs[last.sig].positionals.tier = "chunk"
           /\ n <= SmallSlots => sigs[last.sig].positionals.tier = "pool"

\* C18: every release of a positional array, in growth and in free, goes to
\* the allocator the array was obtained from, a pooled one with the size it
\* was obtained with; free of a signature that never obtained an array
\* releases none.
C18_ReleaseMatchesTier ==
    /\ \A i \in ArrayEvents(last.ev) :
           last.ev[i][1] = "free" =>
               /\ last.ev[i][2] = last.ev[i][5]
               /\ last.ev[i][2] = "pool" => last.ev[i][4] = last.ev[i][6]
    /\ (last.op = "free" /\ last.pre.positionals.p # "OBJ") =>
           /\ fault = "none"
           /\ ArrayEvents(last.ev) = {}

Reads ==
    PosGets \cup NamedGets \cup {"num_positionals", "exists_named"}

\* C19: every read that returns (num_positionals, the positional gets, the
\* named gets, exists_named), at any index or key, leaves the signature as it
\* was: count, capacity, every slot and named cell, the table and its keys.
C19_ReadsChangeNothing ==
    (last.op \in Reads /\ fault = "none") => sigs[last.sig] = last.pre

\* An integer slot read as object has been boxed, and a named get of a key
\* the table lacks has returned.
C19_Witness ==
    /\ fault = "none"
    /\ \/ /\ last.op = "get_pmc"
          /\ FoundCell
          /\ TheCell.type = "INTCELL"
          /\ last.ret = <<"box", "i", TheCell.u>>
       \/ /\ last.op \in NamedGets
          /\ last.pre.hash.p = "OBJ"
          /\ last.key \notin DOMAIN last.pre.hash.e
    /\ sigs[last.sig] = last.pre

\* C20: after clone each metadata handle of the clone is a duplicate of the
\* source's handle of the same name, absent where the source's is absent, so
\* the clone's handles are all absent or all present as the source's are.
C20_CloneDuplicatesHandles ==
    last.op = "clone" =>
        /\ fault = "none"
        /\ \A i \in 1..4 :
               LET h == Handles(last.pre)[i]
                   c == Handles(sigs[last.idx])[i]
               IN IF h.p = "NULL" THEN c.p = "NULL"
                  ELSE c.p = "OBJ" /\ c.id = h.id /\ c.dup = h.dup + 1

\* How many releases of a thing of the kind what there are among events.
Releases(ev, what) ==
    Cardinality({i \in 1..Len(ev) : ev[i][1] = "free" /\ ev[i][3] = what})

\* How many releases of the named cell of key k there are among events.
CellReleases(ev, k) ==
    Cardinality({i \in 1..Len(ev) :
                    ev[i][1] = "free" /\ ev[i][3] = "cell" /\ ev[i][4] = k})

\* The named cells a struct owns.
OwnedCells(self) == IF self.hash.p = "OBJ" THEN DOMAIN self.hash.e ELSE {}

\* C21: every allocation is released exactly once. free returns having
\* released the aggregate once, the positional array once if the signature
\* has one and none otherwise, the named table once if it has one, and each
\* named cell of the table once; reset returns having released each named
\* cell and the table once, the signature left without a table, so that free
\* does not release them again; clone returns having allocated one named cell
\* per key of the source, so that no cell is owned by both; and none of the
\* three touches memory that was released or never obtained.
C21_ReleasedExactlyOnce ==
    /\ last.op = "free" =>
           LET o == last.pre IN
           /\ fault = "none"
           /\ ~sigs[last.sig].live
           /\ Releases(last.ev, "sig") = 1
           /\ Releases(last.ev, "array") = IF o.positionals.p = "OBJ" THEN 1 ELSE 0
           /\ Releases(last.ev, "hash") = IF o.hash.p = "OBJ" THEN 1 ELSE 0
           /\ Releases(last.ev, "cell") = Cardinality(OwnedCells(o))
           /\ \A k \in OwnedCells(o) : CellReleases(last.ev, k) = 1
    /\ last.op = "reset" =>
           LET o == last.pre IN
           /\ fault = "none"
           /\ sigs[last.sig].live
           /\ sigs[last.sig].hash.p = "NULL"
           /\ sigs[last.sig].positionals = o.positionals
           /\ Releases(last.ev, "sig") = 0
           /\ Releases(last.ev, "array") = 0
           /\ Releases(last.ev, "hash") = IF o.hash.p = "OBJ" THEN 1 ELSE 0
           /\ Releases(last.ev, "cell") = Cardinality(OwnedCells(o))
           /\ \A k \in OwnedCells(o) : CellReleases(last.ev, k) = 1
    /\ last.op = "clone" =>
           /\ fault = "none"
           /\ sigs[last.idx].live
           /\ AllocsOf(last.ev, "sig") = 1
           /\ AllocsOf(last.ev, "cell") = Cardinality(OwnedCells(last.pre))
           /\ AllocsOf(last.ev, "hash") = IF last.pre.hash.p = "OBJ" THEN 1 ELSE 0

(***************************************************************************)
(* The reads applied to a struct that holds one cell both in a positional  *)
(* slot and under a name.                                                  *)
(***************************************************************************)
\* The most slots such a struct has in use.
MaxBoth == 2

\* The pushes such a struct is built by: up to MaxBoth pushes of the integer
\* 0 but for one, at any place, of any cell.
BothCells ==
    {[i \in 1..n |-> IF i = j THEN c ELSE Cell("INTCELL", ZeroInt)] :
        <<n, j>> \in {<<n, j>> \in (1..MaxBoth) \X (1..MaxBoth) : j <= n},
        c \in MixCells}

\* Zero-filled structs after the pushes of BothCells, with a table of one key
\* whose cell is the cell of one of the slots.
ArgsBoth ==
    {<<[Pushed(MemsetSig(0), cs) EXCEPT
           !.hash = HashPtr("OBJ", [k \in {key} |-> cs[j]])],
       Made(cs, {key}, 0, FALSE)>> :
        <<cs, j>> \in {<<cs, j>> \in BothCells \X (1..MaxBoth) : j <= Len(cs)},
        key \in Keys}

InitBoth ==
    /\ \E a \in ArgsBoth :
          /\ sigs = [s \in SigIds |-> IF s = 1 THEN a[1] ELSE NoSig]
          /\ calls = [s \in SigIds |-> IF s = 1 THEN a[2] ELSE NoneMade]
    /\ fault = "none"
    /\ last = NoCall
    /\ swept = {}

SpecBoth == InitBoth /\ [][NextRead]_vars

\* The positional get of the kind the named get op returns, at index key.
PositionalGetOf(op, self, key) ==
    CASE op = "get_integer_named" -> Parrot_pcc_signature_get_integer(self, key)
      [] op = "get_number_named"  -> Parrot_pcc_signature_get_number(self, key)
      [] op = "get_string_named"  -> Parrot_pcc_signature_get_string(self, key)
      [] OTHER                    -> Parrot_pcc_signature_get_pmc(self, key)

\* The indexes of the slots in use that hold the cell c.
SlotsHolding(self, c) ==
    IF self.positionals.p # "OBJ" THEN {}
    ELSE {i \in 0..(Len(self.positionals.c) - 1) :
             i < self.num_positionals /\ self.positionals.c[i + 1] = c}

\* C22: a named get that finds a cell of one of the four kinds returns what
\* the positional get of the same target kind returns for every slot holding
\* the same cell, and fails where that one fails; the fast paths of
\* get_integer_named on an integer cell and of get_pmc_named on an object
\* cell return what autobox_intval and autobox_pmc return for the cell.
C22_NamedGetIsPositionalGet ==
    (/\ last.op \in NamedGets
     /\ FoundCell
     /\ TheCell.type \in {"INTCELL", "FLOATCELL", "STRINGCELL", "PMCCELL"}) =>
        /\ \A i \in SlotsHolding(last.pre, TheCell) :
               LET p == PositionalGetOf(last.op, last.pre, i) IN
               /\ fault = p.ub
               /\ p.ub = "none" => last.ret = p.ret
        /\ (last.op = "get_integer_named" /\ TheCell.type = "INTCELL") =>
               /\ fault = autobox_intval(TheCell).ub
               /\ last.ret = autobox_intval(TheCell).ret
        /\ (last.op = "get_pmc_named" /\ TheCell.type = "PMCCELL") =>
               /\ fault = autobox_pmc(TheCell).ub
               /\ last.ret = autobox_pmc(TheCell).ret

\* The fast path of get_pmc_named has returned the object of a cell that a
\* slot holds as well.
C22_Witness ==
    /\ fault = "none"
    /\ last.op = "get_pmc_named"
    /\ FoundCell
    /\ TheCell.type = "PMCCELL"
    /\ TheCell.u # PMCNULL
    /\ SlotsHolding(last.pre, TheCell) # {}
    /\ last.ret = TheCell.u
====
